---- MODULE Spec2Model ----
(***************************************************************************)
(* Model of functions/src/index.ts: the DynamoDB-stream handler that       *)
(* rewrites the "DeploymentAccess" statement of every lambda-bundles       *)
(* bucket policy from the account ids found in the customer table.         *)
(*                                                                         *)
(* Representation.                                                         *)
(*  - A JS string that the code slices or tests with startsWith (a bucket  *)
(*    name, a region) is a sequence of one-character strings.              *)
(*  - A template literal is the tuple of its parts, e.g.                   *)
(*    `arn:aws:iam::${id}:root` is <<"arn:aws:iam::", id, ":root">>.       *)
(*  - A JS object is a function from its property names to values, so an   *)
(*    optional property is a name missing from DOMAIN.  Property order is  *)
(*    not represented: the code never reorders the properties of the       *)
(*    document it was given ({...currentPolicy, Statement} keeps them).    *)
(*  - A policy text is [json |-> value] when it is the serialisation of    *)
(*    value, and [raw |-> s] when it is text JSON.parse rejects or the     *)
(*    empty string.                                                        *)
(*  - One action is one awaited SDK call together with the synchronous     *)
(*    code that runs on its completion, up to the next await.              *)
(***************************************************************************)
EXTENDS Integers, Sequences, FiniteSets, TLC

VARIABLES
    registry,       \* the customer table: a sequence of customer records
    listed,         \* what ListBuckets answers for the account
    store,          \* bucket name -> policy text held by S3, or Absent
    pc,             \* invocation -> position in handler
    accountIds,     \* invocation -> const accountIds (line 152)
    buckets,        \* invocation -> const buckets (line 153)
    idx,            \* invocation -> position of the for-of loop (line 155)
    currentPolicy,  \* invocation -> const currentPolicy (line 158)
    policy,         \* invocation -> const policy (line 166)
    error,          \* invocation -> what reached the catch of line 176
    calls,          \* invocation -> the SDK calls the current run has sent
    before,         \* invocation -> store as it was when the run was invoked
    last,           \* invocation -> how its previous run ended
    runs            \* number of invocations so far

vars == <<registry, listed, store, pc, accountIds, buckets, idx,
          currentPolicy, policy, error, calls, before, last, runs>>

----------------------------------------------------------------------------
(* Bounds of the model *)

MaxCustomers == 2
MaxAccounts == 2
MaxStmts == 2
MaxListed == 2
MaxRuns == 2

----------------------------------------------------------------------------
(* Constants of the program *)

DYNAMODB_TABLE_NAME == "table-name"
POLICY_SID == "DeploymentAccess"
DEFAULT_VERSION == "2012-10-17"

\* the literal of bucket.startsWith(...), line 147
BUCKET_PREFIX ==
    <<"s","o","m","e","-","p","r","e","f","i","x","-","l","a","m","b","d","a","b","u","n","d","l","e","s","-">>

\* the argument of bucket.slice(...), line 156
SLICE_START == 25

READ_ACTIONS ==
    << "s3:GetObject", "s3:GetObjectTagging", "s3:GetObjectAttributes",
       "s3:GetObjectVersion", "s3:GetObjectVersionTagging",
       "s3:GetObjectVersionAttributes", "s3:GetObjectVersionAcl",
       "s3:GetObjectAcl" >>

EmptyObject == [k \in {} |-> k]

----------------------------------------------------------------------------
(* JavaScript primitives the code uses *)

\* s.startsWith(prefix)
startsWith(s, prefix) ==
    /\ Len(s) >= Len(prefix)
    /\ SubSeq(s, 1, Len(prefix)) = prefix

\* s.slice(start), start >= 0 counted from 0
slice(s, start) == SubSeq(s, start + 1, Len(s))

\* JSON.stringify(value)
JSONstringify(value) == [json |-> value]

\* JSON.parse(text): the value, or a SyntaxError
JSONparse(text) ==
    IF "json" \in DOMAIN text
    THEN [raised |-> FALSE, value |-> text.json]
    ELSE [raised |-> TRUE, error |-> "SyntaxError"]

EmptyString == [raw |-> ""]
Malformed == [raw |-> "<html>"]

\* Array.from(new Set(xs)): first occurrences, in order
RECURSIVE ArrayFromSet(_)
ArrayFromSet(xs) ==
    IF xs = <<>> THEN <<>>
    ELSE LET init == ArrayFromSet(SubSeq(xs, 1, Len(xs) - 1))
             x == xs[Len(xs)]
         IN IF \E k \in 1..Len(init) : init[k] = x THEN init ELSE Append(init, x)

----------------------------------------------------------------------------
(* getAccountIdsFromDynamoDB, lines 41-58 *)

\* records.flatMap((item) => item.Accounts.map((account) => account.ID))
RECURSIVE flatMapIDs(_)
flatMapIDs(records) ==
    IF records = <<>> THEN <<>>
    ELSE LET item == records[1]
         IN [k \in 1..Len(item.Accounts) |-> item.Accounts[k].ID]
            \o flatMapIDs(Tail(records))

\* getAccountIdsFromDynamoDB without the Set: every reference is kept
getAccountIdsNoSet(response) ==
    flatMapIDs(IF "Items" \in DOMAIN response THEN response.Items ELSE <<>>)

\* The value the function returns for the answer of the scan.
getAccountIdsFromDynamoDB(response) ==
    LET records == IF "Items" \in DOMAIN response THEN response.Items ELSE <<>>
    IN ArrayFromSet(flatMapIDs(records))

----------------------------------------------------------------------------
(* getCurrentBucketPolicy, lines 80-102 *)

NoPolicyDefault == [Statement |-> <<>>, Version |-> DEFAULT_VERSION]

\* getCurrentBucketPolicy testing the error for another Code
getCurrentBucketPolicyOtherCode(outcome) ==
    IF "response" \in DOMAIN outcome
    THEN LET r == outcome.response
             parsed == JSONparse(IF "Policy" \in DOMAIN r /\ r.Policy # EmptyString
                                 THEN r.Policy
                                 ELSE JSONstringify(EmptyObject))
         IN IF parsed.raised
            THEN [raised |-> TRUE, error |-> parsed.error]
            ELSE [raised |-> FALSE, value |-> parsed.value]
    ELSE LET e == outcome.error
         IN IF "Code" \in DOMAIN e /\ e.Code = "NoSuchBucket"
            THEN [raised |-> FALSE, value |-> NoPolicyDefault]
            ELSE [raised |-> TRUE, error |-> "GetError"]

\* `outcome` is how client.send ended: [response |-> r] or [error |-> e].
\* The result is the returned document, or the error thrown to the caller.
getCurrentBucketPolicy(outcome) ==
    IF "response" \in DOMAIN outcome
    THEN LET r == outcome.response
             Policy == IF "Policy" \in DOMAIN r /\ r.Policy # EmptyString
                       THEN r.Policy
                       ELSE JSONstringify(EmptyObject)
             parsed == JSONparse(Policy)
         IN IF parsed.raised
            THEN [raised |-> TRUE, error |-> parsed.error]
            ELSE [raised |-> FALSE, value |-> parsed.value]
    ELSE LET e == outcome.error
         IN IF "Code" \in DOMAIN e /\ e.Code = "NoSuchBucketPolicy"
            THEN [raised |-> FALSE, value |-> NoPolicyDefault]
            ELSE [raised |-> TRUE, error |-> "GetError"]

----------------------------------------------------------------------------
(* updateBucketPolicy, lines 105-138 *)

Arn(accountId) == <<"arn:aws:iam::", accountId, ":root">>

updatedStatement(bucket, ids) ==
    [ Sid |-> POLICY_SID,
      Effect |-> "Allow",
      Principal |-> [AWS |-> [k \in 1..Len(ids) |-> Arn(ids[k])]],
      Action |-> READ_ACTIONS,
      Resource |-> <<"arn:aws:s3:::", bucket, "/*">> ]

\* statement.Sid, undefined when the statement has none
SidOf(statement) ==
    IF "Sid" \in DOMAIN statement THEN <<statement.Sid>> ELSE <<>>

\* the filter written as statement.Sid && statement.Sid !== POLICY_SID
otherStatementsNamed(document) ==
    SelectSeq(document.Statement,
              LAMBDA st : SidOf(st) # <<>> /\ SidOf(st) # <<POLICY_SID>>)

\* no filter at all: the old managed statements stay
otherStatementsAll(document) == document.Statement

\* currentPolicy.Statement.filter((statement) => statement.Sid !== POLICY_SID)
otherStatements(document) ==
    SelectSeq(document.Statement, LAMBDA st : SidOf(st) # <<POLICY_SID>>)

\* updateBucketPolicy adding the statement only where none carries the Sid
updateBucketPolicyIfMissing(bucket, document, ids) ==
    IF "Statement" \notin DOMAIN document
    THEN [raised |-> TRUE, error |-> "TypeError"]
    ELSE IF \E k \in 1..Len(document.Statement) :
                SidOf(document.Statement[k]) = <<POLICY_SID>>
         THEN [raised |-> FALSE, value |-> document]
         ELSE [raised |-> FALSE,
               value |-> [k \in DOMAIN document |->
                            IF k = "Statement"
                            THEN Append(document.Statement, updatedStatement(bucket, ids))
                            ELSE document[k]]]

\* The returned document, or the TypeError of calling .filter on undefined.
updateBucketPolicy(bucket, document, ids) ==
    IF "Statement" \notin DOMAIN document
    THEN [raised |-> TRUE, error |-> "TypeError"]
    ELSE LET statements == Append(otherStatements(document),
                                  updatedStatement(bucket, ids))
         IN [raised |-> FALSE,
             value |-> [k \in DOMAIN document \cup {"Statement"} |->
                           IF k = "Statement" THEN statements ELSE document[k]]]

----------------------------------------------------------------------------
(* listLambdaBundleBuckets, lines 141-148, and the region of line 156 *)

\* bucket.Name ?? ""
NameOf(bucket) == IF "Name" \in DOMAIN bucket THEN bucket.Name ELSE <<>>

listLambdaBundleBuckets(response) ==
    LET bs == IF "Buckets" \in DOMAIN response THEN response.Buckets ELSE <<>>
        names == [k \in 1..Len(bs) |-> NameOf(bs[k])]
    IN SelectSeq(names, LAMBDA bucket : startsWith(bucket, BUCKET_PREFIX))

regionOf(bucket) == slice(bucket, SLICE_START)

----------------------------------------------------------------------------
(* The inputs: what the table, the account and the buckets may hold *)

Invocations == {1, 2}

SeqsUpTo(S, n) == UNION {[1..k -> S] : k \in 0..n}

AccountIDs == {"111111111111", "222222222222"}

Customer(ids) == [Accounts |-> [k \in 1..Len(ids) |-> [ID |-> ids[k]]]]

Customers == {Customer(ids) : ids \in SeqsUpTo(AccountIDs, MaxAccounts)}

Registries == SeqsUpTo(Customers, MaxCustomers)

\* the two customers of the documented scenario
ScenarioRegistry ==
    << Customer(<<"111111111111">>),
       Customer(<<"222222222222", "111111111111">>) >>

SmallRegistries == {<<>>, ScenarioRegistry}

\* A scan answers the records in no particular order.
ScanResponses(table) ==
    {[Items |-> [k \in 1..Len(table) |-> table[f[k]]]] :
        f \in Permutations(1..Len(table))}
    \cup (IF table = <<>> THEN {EmptyObject} ELSE {})

EuWest2 ==
    <<"s","o","m","e","-","p","r","e","f","i","x","-","l","a","m","b","d","a","b","u","n","d","l","e","s","-","e","u","-","w","e","s","t","-","2">>

UsEast1 ==
    <<"s","o","m","e","-","p","r","e","f","i","x","-","l","a","m","b","d","a","b","u","n","d","l","e","s","-","u","s","-","e","a","s","t","-","1">>

ApSouth1 ==
    <<"s","o","m","e","-","p","r","e","f","i","x","-","l","a","m","b","d","a","b","u","n","d","l","e","s","-","a","p","-","s","o","u","t","h","-","1">>

ShortName ==
    <<"s","o","m","e","-","p","r","e","f","i","x","-","l","a","m","b","d","a","b","u","n","d","l","e","s">>

UpperName ==
    <<"S","o","m","e","-","P","r","e","f","i","x","-","L","a","m","b","d","a","b","u","n","d","l","e","s","-","e","u","-","w","e","s","t","-","2">>

OtherBucket ==
    <<"o","t","h","e","r","-","b","u","c","k","e","t">>

BarePrefix == BUCKET_PREFIX

ManagedNames == {EuWest2, UsEast1, ApSouth1, BarePrefix}

AllNames == ManagedNames \cup {ShortName, UpperName, OtherBucket}

ForeignOther ==
    [ Sid |-> "Other",
      Effect |-> "Deny",
      Principal |-> [AWS |-> <<Arn("333333333333")>>],
      Action |-> <<"s3:DeleteObject">>,
      Resource |-> <<"arn:aws:s3:::", EuWest2, "/*">> ]

ForeignNoSid ==
    [ Effect |-> "Allow",
      Principal |-> [Service |-> "cloudfront.amazonaws.com"],
      Action |-> <<"s3:GetObject">>,
      Resource |-> <<"arn:aws:s3:::", EuWest2, "/public/*">> ]

ForeignLowerSid ==
    [ Sid |-> "deploymentaccess",
      Effect |-> "Allow",
      Principal |-> [AWS |-> <<Arn("444444444444")>>],
      Action |-> <<"s3:ListBucket">>,
      Resource |-> <<"arn:aws:s3:::", EuWest2, "">> ]

StaleManaged ==
    [ Sid |-> POLICY_SID,
      Effect |-> "Allow",
      Principal |-> [AWS |-> <<Arn("999999999999")>>],
      Action |-> <<"s3:GetObject">>,
      Resource |-> <<"arn:aws:s3:::", EuWest2, "/*">> ]

Statements == {ForeignOther, ForeignNoSid, ForeignLowerSid, StaleManaged}

Absent == [absent |-> TRUE]

Documents ==
    {EmptyObject, [Version |-> DEFAULT_VERSION]}
    \cup {[Version |-> "2008-10-17", Statement |-> sts] :
            sts \in SeqsUpTo(Statements, MaxStmts)}
    \cup {[Version |-> DEFAULT_VERSION, Id |-> "Policy1", Statement |-> sts] :
            sts \in SeqsUpTo(Statements, MaxStmts)}

PolicyTexts == {Malformed} \cup {JSONstringify(d) : d \in Documents}

ScenarioPolicy ==
    JSONstringify([Version |-> DEFAULT_VERSION, Statement |-> <<ForeignOther>>])

MixedPolicy ==
    JSONstringify([Version |-> "2008-10-17", Id |-> "Policy1",
                   Statement |-> <<StaleManaged, ForeignNoSid, StaleManaged,
                                   ForeignOther>>])

DriverPolicies == {Absent, ScenarioPolicy, MixedPolicy}

ScenarioStore == [b \in AllNames |-> IF b = ApSouth1 THEN Absent ELSE ScenarioPolicy]

BucketEntries == {[Name |-> n] : n \in AllNames \ {ApSouth1}} \cup {EmptyObject}

ListResponses ==
    {EmptyObject}
    \cup {[Buckets |-> bs] :
            bs \in {s \in SeqsUpTo(BucketEntries, MaxListed) :
                      \A j, k \in 1..Len(s) : j # k => s[j] # s[k]}}

OneBucket == [Buckets |-> <<[Name |-> EuWest2]>>]

DriverListing ==
    [Buckets |-> << [Name |-> EuWest2], [Name |-> OtherBucket],
                    [Name |-> UsEast1], [Name |-> ApSouth1] >>]

----------------------------------------------------------------------------
(* Initial states *)

InitLocals ==
    /\ pc = [i \in Invocations |-> "idle"]
    /\ accountIds = [i \in Invocations |-> <<>>]
    /\ buckets = [i \in Invocations |-> <<>>]
    /\ idx = [i \in Invocations |-> 0]
    /\ currentPolicy = [i \in Invocations |-> EmptyObject]
    /\ policy = [i \in Invocations |-> EmptyString]
    /\ error = [i \in Invocations |-> "none"]
    /\ calls = [i \in Invocations |-> <<>>]
    /\ before = [i \in Invocations |-> store]
    /\ last = [i \in Invocations |-> "idle"]
    /\ runs = 0

\* any table, one bucket without a policy
InitResolver ==
    /\ registry \in Registries
    /\ listed = OneBucket
    /\ store = [ScenarioStore EXCEPT ![EuWest2] = Absent]

\* any policy on one bucket
InitMerger ==
    /\ registry \in SmallRegistries
    /\ listed = OneBucket
    /\ store \in {[ScenarioStore EXCEPT ![EuWest2] = t] : t \in PolicyTexts}

\* any answer of ListBuckets
InitDiscovery ==
    /\ registry = ScenarioRegistry
    /\ listed \in ListResponses
    /\ store = ScenarioStore

\* three managed buckets among others
InitDriver ==
    /\ registry \in SmallRegistries
    /\ listed = DriverListing
    /\ store \in {[ScenarioStore EXCEPT ![EuWest2] = t1, ![UsEast1] = t2, ![ApSouth1] = t3] :
                    t1 \in DriverPolicies, t2 \in DriverPolicies, t3 \in DriverPolicies}

Init ==
    /\ InitResolver \/ InitMerger \/ InitDiscovery \/ InitDriver
    /\ InitLocals

----------------------------------------------------------------------------
(* handler, lines 150-180 *)

Called(i, call) == calls' = [calls EXCEPT ![i] = Append(@, call)]

\* catch (error) { console.error(...); throw error; }, lines 176-179
Throw(i, e) ==
    /\ pc' = [pc EXCEPT ![i] = "failed"]
    /\ error' = [error EXCEPT ![i] = e]

\* the entry of the for-of loop at position k, or its exit (line 175)
Loop(i, bs, k) ==
    IF k <= Len(bs)
    THEN /\ pc' = [pc EXCEPT ![i] = "get"]
         /\ idx' = [idx EXCEPT ![i] = k]
    ELSE /\ pc' = [pc EXCEPT ![i] = "done"]
         /\ idx' = [idx EXCEPT ![i] = k]

\* The stream delivers an event to an idle instance.
Invoke(i) ==
    /\ pc[i] \in {"idle", "done", "failed"}
    /\ runs < MaxRuns
    /\ runs' = runs + 1
    /\ last' = [last EXCEPT ![i] = pc[i]]
    /\ before' = [before EXCEPT ![i] = store]
    /\ pc' = [pc EXCEPT ![i] = "scan"]
    /\ accountIds' = [accountIds EXCEPT ![i] = <<>>]
    /\ buckets' = [buckets EXCEPT ![i] = <<>>]
    /\ idx' = [idx EXCEPT ![i] = 0]
    /\ currentPolicy' = [currentPolicy EXCEPT ![i] = EmptyObject]
    /\ policy' = [policy EXCEPT ![i] = EmptyString]
    /\ error' = [error EXCEPT ![i] = "none"]
    /\ calls' = [calls EXCEPT ![i] = <<>>]
    /\ UNCHANGED <<registry, listed, store>>

\* line 152, the scan answers
ScanOk(i) ==
    /\ pc[i] = "scan"
    /\ \E response \in ScanResponses(registry) :
          accountIds' = [accountIds EXCEPT ![i] = getAccountIdsFromDynamoDB(response)]
    /\ pc' = [pc EXCEPT ![i] = "list"]
    /\ Called(i, [op |-> "Scan", table |-> DYNAMODB_TABLE_NAME, result |-> "ok"])
    /\ UNCHANGED <<registry, listed, store, buckets, idx, currentPolicy, policy,
                   error, before, last, runs>>

\* the scan's rejection swallowed: the run goes on with no account
ScanFailSwallowed(i) ==
    /\ pc[i] = "scan"
    /\ pc' = [pc EXCEPT ![i] = "list"]
    /\ Called(i, [op |-> "Scan", table |-> DYNAMODB_TABLE_NAME, result |-> "error"])
    /\ UNCHANGED <<registry, listed, store, accountIds, buckets, idx,
                   currentPolicy, policy, error, before, last, runs>>

\* line 152, the scan rejects
ScanFail(i) ==
    /\ pc[i] = "scan"
    /\ Throw(i, "ScanError")
    /\ Called(i, [op |-> "Scan", table |-> DYNAMODB_TABLE_NAME, result |-> "error"])
    /\ UNCHANGED <<registry, listed, store, accountIds, buckets, idx,
                   currentPolicy, policy, before, last, runs>>

\* line 153, ListBuckets answers
ListBucketsOk(i) ==
    /\ pc[i] = "list"
    /\ LET bs == listLambdaBundleBuckets(listed)
       IN /\ buckets' = [buckets EXCEPT ![i] = bs]
          /\ Loop(i, bs, 1)
    /\ Called(i, [op |-> "ListBuckets", result |-> "ok"])
    /\ UNCHANGED <<registry, listed, store, accountIds, currentPolicy, policy,
                   error, before, last, runs>>

\* line 153, ListBuckets rejects
ListBucketsFail(i) ==
    /\ pc[i] = "list"
    /\ Throw(i, "ListError")
    /\ Called(i, [op |-> "ListBuckets", result |-> "error"])
    /\ UNCHANGED <<registry, listed, store, accountIds, buckets, idx,
                   currentPolicy, policy, before, last, runs>>

bucketOf(i) == buckets[i][idx[i]]

\* lines 156-166 once client.send of GetBucketPolicy has ended with `outcome`
Fetched(i, outcome) ==
    LET got == getCurrentBucketPolicy(outcome)
    IN IF got.raised
       THEN /\ Throw(i, got.error)
            /\ UNCHANGED <<currentPolicy, policy>>
       ELSE LET updatedPolicy == updateBucketPolicy(bucketOf(i), got.value, accountIds[i])
            IN /\ currentPolicy' = [currentPolicy EXCEPT ![i] = got.value]
               /\ IF updatedPolicy.raised
                  THEN /\ Throw(i, updatedPolicy.error)
                       /\ UNCHANGED policy
                  ELSE /\ pc' = [pc EXCEPT ![i] = "put"]
                       /\ policy' = [policy EXCEPT ![i] = JSONstringify(updatedPolicy.value)]
                       /\ UNCHANGED error

GetCall(i, result) ==
    [op |-> "GetBucketPolicy", region |-> regionOf(bucketOf(i)),
     bucket |-> bucketOf(i), result |-> result]

\* line 158, the bucket has a policy and S3 answers it
GetBucketPolicyOk(i) ==
    /\ pc[i] = "get"
    /\ store[bucketOf(i)] # Absent
    /\ Fetched(i, [response |-> [Policy |-> store[bucketOf(i)]]])
    /\ Called(i, GetCall(i, "ok"))
    /\ UNCHANGED <<registry, listed, store, accountIds, buckets, idx, before,
                   last, runs>>

\* line 158, the answer carries no policy body (Policy missing or "")
GetBucketPolicyEmpty(i) ==
    /\ pc[i] = "get"
    /\ \E r \in {EmptyObject, [Policy |-> EmptyString]} :
          Fetched(i, [response |-> r])
    /\ Called(i, GetCall(i, "empty"))
    /\ UNCHANGED <<registry, listed, store, accountIds, buckets, idx, before,
                   last, runs>>

\* line 158, the bucket has no policy: S3 rejects with NoSuchBucketPolicy
GetBucketPolicyNoSuch(i) ==
    /\ pc[i] = "get"
    /\ store[bucketOf(i)] = Absent
    /\ Fetched(i, [error |-> [Code |-> "NoSuchBucketPolicy"]])
    /\ Called(i, GetCall(i, "NoSuchBucketPolicy"))
    /\ UNCHANGED <<registry, listed, store, accountIds, buckets, idx, before,
                   last, runs>>

\* line 158, any other rejection, with a Code or without one
GetBucketPolicyFail(i) ==
    /\ pc[i] = "get"
    /\ \E e \in {[Code |-> "AccessDenied"], [name |-> "TimeoutError"]} :
          Fetched(i, [error |-> e])
    /\ Called(i, GetCall(i, "error"))
    /\ UNCHANGED <<registry, listed, store, accountIds, buckets, idx, before,
                   last, runs>>

PutCall(i, result) ==
    [op |-> "PutBucketPolicy", region |-> regionOf(bucketOf(i)),
     bucket |-> bucketOf(i), result |-> result]

\* line 173, S3 stores the policy
PutBucketPolicyOk(i) ==
    /\ pc[i] = "put"
    /\ store' = [store EXCEPT ![bucketOf(i)] = policy[i]]
    /\ Loop(i, buckets[i], idx[i] + 1)
    /\ Called(i, PutCall(i, "ok"))
    /\ UNCHANGED <<registry, listed, accountIds, buckets, currentPolicy, policy,
                   error, before, last, runs>>

\* the rejection caught per bucket: the loop goes on with the next one
PutBucketPolicyFailIsolated(i) ==
    /\ pc[i] = "put"
    /\ Loop(i, buckets[i], idx[i] + 1)
    /\ Called(i, PutCall(i, "error"))
    /\ UNCHANGED <<registry, listed, store, accountIds, buckets,
                   currentPolicy, policy, error, before, last, runs>>

\* line 173, S3 rejects the policy
PutBucketPolicyFail(i) ==
    /\ pc[i] = "put"
    /\ Throw(i, "PutError")
    /\ Called(i, PutCall(i, "error"))
    /\ UNCHANGED <<registry, listed, store, accountIds, buckets, idx,
                   currentPolicy, policy, before, last, runs>>

Step(i) ==
    \/ Invoke(i)
    \/ ScanOk(i)
    \/ ScanFail(i)
    \/ ListBucketsOk(i)
    \/ ListBucketsFail(i)
    \/ GetBucketPolicyOk(i)
    \/ GetBucketPolicyEmpty(i)
    \/ GetBucketPolicyNoSuch(i)
    \/ GetBucketPolicyFail(i)
    \/ PutBucketPolicyOk(i)
    \/ PutBucketPolicyFail(i)

\* one instance, invoked again after it has ended
Next == Step(1)

Spec == Init /\ [][Next]_vars

\* two instances side by side
InitConcurrent ==
    /\ registry \in SmallRegistries
    /\ listed = [Buckets |-> <<[Name |-> EuWest2], [Name |-> UsEast1]>>]
    /\ store \in {[ScenarioStore EXCEPT ![EuWest2] = t1, ![UsEast1] = t2] :
                    t1 \in DriverPolicies, t2 \in DriverPolicies}
    /\ InitLocals

NextConcurrent == \E i \in Invocations : Step(i)

SpecConcurrent == InitConcurrent /\ [][NextConcurrent]_vars

----------------------------------------------------------------------------
(* What the claims speak of, stated apart from the operators above *)

IsManaged(st) == "Sid" \in DOMAIN st /\ st.Sid = POLICY_SID

ManagedCount(sts) == Cardinality({k \in 1..Len(sts) : IsManaged(sts[k])})

\* the statements of sts that do not carry the managed Sid, in order
RECURSIVE ForeignOf(_)
ForeignOf(sts) ==
    IF sts = <<>> THEN <<>>
    ELSE IF IsManaged(sts[1]) THEN ForeignOf(Tail(sts))
         ELSE <<sts[1]>> \o ForeignOf(Tail(sts))

\* the managed statement for a bucket and a list of account ids
ExpectedStatement(bucket, ids) ==
    [ Sid |-> "DeploymentAccess",
      Effect |-> "Allow",
      Principal |-> [AWS |-> [k \in 1..Len(ids) |-> <<"arn:aws:iam::", ids[k], ":root">>]],
      Action |-> << "s3:GetObject", "s3:GetObjectTagging", "s3:GetObjectAttributes",
                    "s3:GetObjectVersion", "s3:GetObjectVersionTagging",
                    "s3:GetObjectVersionAttributes", "s3:GetObjectVersionAcl",
                    "s3:GetObjectAcl" >>,
      Resource |-> <<"arn:aws:s3:::", bucket, "/*">> ]

\* the text one run alone leaves on a bucket that held `text`
Alone(bucket, text, ids) ==
    LET cur == IF text = Absent
               THEN [Version |-> "2012-10-17", Statement |-> <<>>]
               ELSE text.json
    IN [json |->
          [k \in DOMAIN cur |->
              IF k = "Statement"
              THEN ForeignOf(cur.Statement) \o <<ExpectedStatement(bucket, ids)>>
              ELSE cur[k]]]

BucketSet(i) == {buckets[i][k] : k \in 1..Len(buckets[i])}

RegistryIDs ==
    UNION {{registry[c].Accounts[a].ID : a \in 1..Len(registry[c].Accounts)} :
              c \in 1..Len(registry)}

\* the GetBucketPolicy and PutBucketPolicy calls of the current run, in order
BucketCalls(i) ==
    SelectSeq(calls[i], LAMBDA c : c.op \in {"GetBucketPolicy", "PutBucketPolicy"})

LastCall(i) == calls[i][Len(calls[i])]

----------------------------------------------------------------------------
(* The claims *)

\* C1: the statement list updateBucketPolicy returns, with its managed
\* statement removed, is the sequence of the input's foreign statements
\* (those without the Sid "DeploymentAccess", unnamed ones included):
\* same statements, same content, same order.
C1_ForeignPreserved ==
    \A i \in Invocations :
        pc[i] = "put" =>
            /\ ForeignOf(policy[i].json.Statement) = ForeignOf(currentPolicy[i].Statement)
            /\ \A k \in 1..Len(currentPolicy[i].Statement) :
                  ~IsManaged(currentPolicy[i].Statement[k]) =>
                      \E j \in 1..Len(policy[i].json.Statement) :
                          policy[i].json.Statement[j] = currentPolicy[i].Statement[k]
            /\ Len(policy[i].json.Statement)
                  = Len(ForeignOf(currentPolicy[i].Statement)) + 1

C1_Witness ==
    /\ pc[1] = "put"
    /\ currentPolicy[1].Statement
          = <<StaleManaged, ForeignNoSid, StaleManaged, ForeignOther>>

\* C2: whatever number of managed statements the input holds, the output
\* of updateBucketPolicy holds exactly one; so after a successful run every
\* managed bucket's stored policy holds exactly one.
C2_SingleManaged ==
    \A i \in Invocations :
        /\ pc[i] = "put" => ManagedCount(policy[i].json.Statement) = 1
        /\ pc[i] = "done" =>
              \A b \in BucketSet(i) :
                  /\ "json" \in DOMAIN store[b]
                  /\ ManagedCount(store[b].json.Statement) = 1

C2_Witness ==
    /\ pc[1] = "done"
    /\ Len(buckets[1]) = 3
    /\ before[1][EuWest2] = MixedPolicy
    /\ before[1][ApSouth1] = Absent

\* C3: after a successful run, on every managed bucket the principals of
\* the managed statement, decoded from arn:aws:iam::<id>:root, are exactly
\* the account ids occurring in the table, each once; an empty table gives
\* a managed statement with an empty principal list.
C3_AccountCoverage ==
    \A i \in Invocations :
        pc[i] = "done" =>
            \A b \in BucketSet(i) :
                LET sts == store[b].json.Statement
                    ms == {k \in 1..Len(sts) : IsManaged(sts[k])}
                IN /\ Cardinality(ms) = 1
                   /\ \A k \in ms :
                         LET aws == sts[k].Principal.AWS
                         IN /\ \A j \in 1..Len(aws) :
                                  /\ Len(aws[j]) = 3
                                  /\ aws[j][1] = "arn:aws:iam::"
                                  /\ aws[j][3] = ":root"
                            /\ {aws[j][2] : j \in 1..Len(aws)} = RegistryIDs
                            /\ Len(aws) = Cardinality(RegistryIDs)

C3_Witness ==
    /\ pc[1] = "done"
    /\ buckets[1] # <<>>
    /\ registry = ScenarioRegistry

\* C4: a second run right after a successful one, the table unchanged and
\* nobody else writing, leaves every managed bucket's policy text identical
\* to what the first run wrote, whatever order the scan answers in.
C4_Idempotent ==
    (pc[1] = "done" /\ last[1] = "done") =>
        \A b \in BucketSet(1) : store[b] = before[1][b]

\* C5: NoSuchBucketPolicy does not fail the run: the policy written is
\* Version "2012-10-17" with the managed statement alone; every other
\* rejection of get-policy fails the run.
C5_NoPolicyRecovered ==
    \A i \in Invocations :
        calls[i] # <<>> =>
            LET c == LastCall(i)
            IN /\ (c.op = "GetBucketPolicy" /\ c.result = "NoSuchBucketPolicy") =>
                      /\ pc[i] = "put"
                      /\ policy[i].json
                            = [Version |-> "2012-10-17",
                               Statement |-> <<ExpectedStatement(c.bucket, accountIds[i])>>]
               /\ (c.op = "GetBucketPolicy" /\ c.result = "error") =>
                      /\ pc[i] = "failed"
                      /\ store[c.bucket] = before[i][c.bucket]
               /\ (/\ c.op = "PutBucketPolicy"
                   /\ c.result = "ok"
                   /\ calls[i][Len(calls[i]) - 1].result = "NoSuchBucketPolicy") =>
                      store[c.bucket].json
                         = [Version |-> "2012-10-17",
                            Statement |-> <<ExpectedStatement(c.bucket, accountIds[i])>>]

C5_Witness ==
    /\ pc[1] = "done"
    /\ LastCall(1).op = "PutBucketPolicy"
    /\ calls[1][Len(calls[1]) - 1].result = "NoSuchBucketPolicy"

\* C6: when the scan fails the run ends failed and has touched no bucket:
\* no ListBuckets, GetBucketPolicy or PutBucketPolicy call was sent and
\* every bucket's policy is as it was.
C6_ScanFailureTouchesNothing ==
    \A i \in Invocations :
        (calls[i] # <<>> /\ calls[i][1].result = "error") =>
            /\ pc[i] = "failed"
            /\ error[i] = "ScanError"
            /\ Len(calls[i]) = 1
            /\ store = before[i]

C6_Witness ==
    /\ pc[1] = "failed"
    /\ error[1] = "ScanError"
    /\ last[1] = "done"

\* C7: buckets are handled one at a time in discovery order; when the
\* get-policy (other than not-found) or put-policy call of the N-th bucket
\* fails, the run ends failed, buckets 1..N-1 keep the policy written to
\* them, bucket N is unchanged and no call was sent for buckets N+1..end.
C7_FailFastNoRollback ==
    \A i \in Invocations :
        LET bs == buckets[i]
            io == BucketCalls(i)
        IN /\ \A k \in 1..Len(io) :
                 /\ io[k].bucket = bs[(k + 1) \div 2]
                 /\ io[k].op = IF k % 2 = 1 THEN "GetBucketPolicy" ELSE "PutBucketPolicy"
                 /\ k < Len(io) => io[k].result \in {"ok", "NoSuchBucketPolicy"}
           /\ (io # <<>> /\ io[Len(io)].result = "error") =>
                 LET N == (Len(io) + 1) \div 2
                 IN /\ pc[i] = "failed"
                    /\ error[i] \in {"GetError", "PutError"}
                    /\ \A k \in 1..(N - 1) :
                          store[bs[k]] = Alone(bs[k], before[i][bs[k]], accountIds[i])
                    /\ \A k \in N..Len(bs) : store[bs[k]] = before[i][bs[k]]

C7_Witness ==
    /\ pc[1] = "failed"
    /\ error[1] = "PutError"
    /\ Len(buckets[1]) = 3
    /\ Len(BucketCalls(1)) = 4
    /\ store[buckets[1][1]] # before[1][buckets[1][1]]

\* C8: two invocations side by side, having resolved the same account set:
\* under every interleaving of their get-policy and put-policy steps, once
\* both have completed every managed bucket holds the policy one invocation
\* alone would have written (the foreign statements in order, then exactly
\* one managed statement with that account set).
C8_ConcurrentSafe ==
    (\A i \in Invocations : pc[i] = "done") =>
        \A b \in BucketSet(1) \cup BucketSet(2) :
            \E k \in Invocations :
                \A j \in Invocations :
                    store[b] = Alone(b, before[j][b], accountIds[k])

C8_Witness ==
    /\ \A i \in Invocations : pc[i] = "done"
    /\ accountIds[1] # accountIds[2]
    /\ store[EuWest2] = Alone(EuWest2, before[1][EuWest2], accountIds[1])
    /\ store[UsEast1] = Alone(UsEast1, before[1][UsEast1], accountIds[2])
    /\ before[1][EuWest2] = MixedPolicy

\* C9: discovery keeps exactly the listed names that start with
\* "some-prefix-lambdabundles-", and the region of every get-policy and
\* put-policy call is the bucket name with that whole prefix stripped.
C9_PrefixAndRegion ==
    \A i \in Invocations :
        /\ pc[i] \in {"get", "put", "done"} =>
              LET bs == IF "Buckets" \in DOMAIN listed THEN listed.Buckets ELSE <<>>
              IN buckets[i]
                   = SelectSeq([k \in 1..Len(bs) |->
                                   IF "Name" \in DOMAIN bs[k] THEN bs[k].Name ELSE <<>>],
                               LAMBDA n : \E rest \in {SubSeq(n, 27, Len(n))} :
                                             n = BUCKET_PREFIX \o rest)
        /\ \A k \in 1..Len(BucketCalls(i)) :
              BucketCalls(i)[k].bucket = BUCKET_PREFIX \o BucketCalls(i)[k].region

\* C10: updateBucketPolicy never raises on what getCurrentBucketPolicy
\* returns, so a run fails only through the scan, ListBuckets, get-policy
\* or put-policy, or through a malformed body rejected at fetch time.
C10_MergeTotal ==
    \A i \in Invocations :
        pc[i] = "failed" =>
            error[i] \in {"ScanError", "ListError", "GetError", "PutError", "SyntaxError"}

====
